---- MODULE Spec2Model ----
(***************************************************************************)
(* Verification model of the task-management frontend:                     *)
(*   - the TaskAttachments component (upload protocol, two-phase delete,   *)
(*     list refetch, download)               specification Spec            *)
(*     and with every response arriving      specification SpecLive        *)
(*   - its list requests with their history  specification SpecFetch       *)
(*   - its preview modal                     specification SpecPreview     *)
(*   - the TaskList pagination window        specification SpecPage        *)
(*   - canPreviewType                        specification SpecMime        *)
(*   - the fetch-based API client functions  specification SpecApi         *)
(*   - the useSocket hook                    specification SpecSocket      *)
(*   - the ProjectNav sidebar group          specification SpecNav         *)
(*   - the assignees cell of a TaskList row  specification SpecRow         *)
(***************************************************************************)
EXTENDS Integers, Sequences, FiniteSets, TLC

VARIABLES
    \* ---- TaskAttachments: props and React state ----
    mounted,               \* the mount effect (useEffect) has run
    token,                 \* prop token?: string
    taskId,                \* prop taskId
    attachments,           \* useState<Attachment[]>([])
    isLoading,             \* useState(true)
    error,                 \* useState<string | null>(null)
    selectedFile,          \* useState<File | null>(null)
    isUploading,           \* useState(false)
    deleteAlertOpen,       \* useState(false)
    deletingAttachmentId,  \* useState<string | null>(null)
    \* ---- TaskAttachments: asynchronous calls in flight ----
    fetches,               \* getTaskAttachments calls awaiting their response
    uploads,               \* the upload runs started by handleFileUpload
    deletes,               \* deleteAttachment calls awaiting their response
    downloads,             \* getAttachmentSignedDownloadUrl calls awaiting theirs
    \* ---- TaskAttachments: the preview modal ----
    isPreviewModalOpen,    \* useState(false)
    previewAttachment,     \* useState<Attachment | null>(null)
    previewClick,          \* the latest call of handlePreviewClick
    \* ---- TaskAttachments: histories ----
    deleteLog,             \* events of the current delete episode, in order
    lastCall,              \* the API call that settled in the latest step, if one did
    \* ---- TaskList pagination ----
    pgPc, page, pageSize, total, pgI, pageNumbers, rendered, pageChange,
    \* ---- canPreviewType ----
    mimePc, fileType, canPreview, modalContent,
    \* ---- API client call ----
    apiPc,        \* "call", "send", "response", "done"
    apiFn,        \* the function called
    apiToken,     \* its token argument
    apiSession,   \* session?.user?.token of getServerSession
    apiBearer,    \* the token the function goes on with
    apiResponse,  \* the Response fetch resolved with
    apiRequests,  \* the fetch calls made, in order
    apiParsed,    \* response.json() or JSON.parse was attempted
    apiResult,    \* how the returned promise settled
    \* ---- useSocket ----
    hooks,        \* the component instances that call useSocket
    sockets,      \* the sockets io() has returned, in order of creation
    \* ---- ProjectNav ----
    navPc,        \* "idle", "props" (called) or "rendered" (returned)
    navItems,     \* prop items: Project[] | undefined
    navRendered,  \* what the component returned
    \* ---- the assignees cell of a TaskList row ----
    rowPc,        \* "idle", "props" or "rendered"
    assignees,    \* task.assignees: Assignee[] | null
    cell,         \* the children rendered in the cell
    \* ---- history of the list requests (specification SpecFetch) ----
    latestOk      \* the response of the most recently issued list request
                  \* that has succeeded, and how many requests in flight
                  \* were issued before it

prevVars == <<isPreviewModalOpen, previewAttachment, previewClick>>
compVars == <<mounted, token, taskId, attachments, isLoading, error, selectedFile,
              isUploading, deleteAlertOpen, deletingAttachmentId, fetches, uploads,
              deletes, downloads, prevVars, deleteLog, lastCall>>
pageVars == <<pgPc, page, pageSize, total, pgI, pageNumbers, rendered,
              pageChange>>
mimeVars == <<mimePc, fileType, canPreview, modalContent>>
apiVars == <<apiPc, apiFn, apiToken, apiSession, apiBearer, apiResponse, apiRequests,
             apiParsed, apiResult>>
sockVars == <<hooks, sockets>>
navVars == <<navPc, navItems, navRendered>>
rowVars == <<rowPc, assignees, cell>>
histVars == <<latestOk>>
vars == <<compVars, pageVars, mimeVars, apiVars, sockVars, navVars, rowVars,
          histVars>>

(***************************************************************************)
(* Bounds                                                                  *)
(***************************************************************************)
\* asynchronous operations of TaskAttachments in flight at one time
MaxFetches == 2
\* TaskList pagination inputs
MaxPageSize == 3
MaxTotal == 14
\* length of the part of a MIME type that follows a known head
MaxSuffix == 2
\* components that call useSocket at one time, and calls of io() in all
MaxHooks == 2
MaxSockets == 4
\* projects in the list given to ProjectNav
MaxItems == 3
\* assignees of the task of a TaskList row
MaxAssignees == 5

(***************************************************************************)
(* Values                                                                  *)
(***************************************************************************)
NoToken == "undefined"
Tokens == {"tok"}
TaskIds == {"T1"}
NoId == "null"
AttIds == {"a1", "a2"}
NoFile == "null"
Files == {"f1"}
NoError == "null"
\* previewAttachment: Attachment | null
NoAttachment == [attachment_id |-> NoId]
\* a call of handlePreviewClick: its argument and the toast it showed; calls
\* are told apart by the parity of their number
Click(att, toast, parity) == [att |-> att, toast |-> toast, parity |-> parity]
NoClick == Click(NoAttachment, "none", FALSE)

\* the call onPageChange(num) made by a control of the pagination, if any
PageChange(control, num) == [control |-> control, page |-> num]
NoPageChange == PageChange("none", 0)

\* no list request has succeeded yet
NoLatest == [older |-> 0, data |-> <<>>]

\* an optional array: the items prop of ProjectNav (Project[] | undefined),
\* task.assignees (Assignee[] | null)
Some(list) == [defined |-> TRUE, list |-> list]
NoItems == [defined |-> FALSE, list |-> <<>>]
NoAssignees == [defined |-> FALSE, list |-> <<>>]

\* what ProjectNav returns: null, or the sidebar group with its entries
RenderedNull == [null |-> TRUE, entries |-> <<>>]
RenderedGroup(entries) == [null |-> FALSE, entries |-> entries]

\* the children of the assignees cell: the avatars, the number on the "+N"
\* avatar (0: no such avatar) and whether the "Unassigned" label is there
Cell(avatars, more, unassigned) ==
    [avatars |-> avatars, more |-> more, unassigned |-> unassigned]
EmptyCell == Cell(<<>>, 0, FALSE)

\* MIME types; a string is the sequence of its characters
ImagePrefix == <<"i", "m", "a", "g", "e", "/">>
VideoPrefix == <<"v", "i", "d", "e", "o", "/">>
PdfType == <<"a", "p", "p", "l", "i", "c", "a", "t", "i", "o", "n", "/", "p", "d", "f">>
\* fileType: string | null; null is no sequence of characters
NullType == <<"null">>

\* String.prototype.startsWith
StartsWith(str, prefix) ==
    /\ Len(str) >= Len(prefix)
    /\ SubSeq(str, 1, Len(prefix)) = prefix

\* canPreviewType: a falsy type (null, "") is refused, then some(startsWith)
CanPreviewTypeAny(ft) == TRUE
CanPreviewType(ft) ==
    IF ft = NullType \/ ft = <<>>
    THEN FALSE
    ELSE \E prefix \in {ImagePrefix, VideoPrefix, PdfType} : StartsWith(ft, prefix)

\* the file types of the attachments: "image/p", "text/" and "link"
ImageType == ImagePrefix \o <<"p">>
TextType == <<"t", "e", "x", "t", "/">>
LinkType == <<"l", "i", "n", "k">>

\* an Attachment record as the backend sends it; "" is an absent timestamp
Att(id, type, created, uploaded) ==
    [attachment_id |-> id, file_type |-> type, created_at |-> created,
     uploaded_at |-> uploaded]
\* the attachment lists the backend may answer a list request with
FetchResponses ==
    { <<>>,
      <<Att("a1", ImageType, "c1", "u1")>>,
      <<Att("a2", TextType, "", "u2"), Att("a1", ImageType, "c1", "")>> }

\* the record of the API call that settles in a step: the call, how it
\* settled, the handler that awaited it, the toast that handler showed, the
\* requests it issued next and, for a list request that succeeded, the
\* records received; a step of the user or of the parent records no call
Handler(op) ==
    CASE op = "list" -> "fetchAttachments"
      [] op \in {"sign", "put", "record"} -> "handleFileUpload"
      [] op = "delete" -> "confirmDelete"
      [] op = "download" -> "handleDownload"
      [] OTHER -> "none"
Call(op, outcome, toast, issued, data) ==
    [op |-> op, outcome |-> outcome, handler |-> Handler(op), toast |-> toast,
     issued |-> issued, data |-> data]
NoCall == Call("none", "none", "none", <<>>, <<>>)

\* the values of the variables of the other specifications while one runs
PageIdle ==
    /\ pgPc = "idle" /\ page = 1 /\ pageSize = 1 /\ total = 0 /\ pgI = 1
    /\ pageNumbers = <<>> /\ rendered = <<>> /\ pageChange = NoPageChange
MimeIdle ==
    mimePc = "idle" /\ fileType = <<>> /\ canPreview = FALSE /\ modalContent = "none"
ApiIdle ==
    /\ apiPc = "idle" /\ apiFn = "none" /\ apiToken = NoToken /\ apiSession = NoToken
    /\ apiBearer = NoToken /\ apiResponse = "none"
    /\ apiRequests = <<>> /\ apiParsed = FALSE /\ apiResult = [kind |-> "pending"]
SocketIdle == hooks = <<>> /\ sockets = <<>>
NavIdle == navPc = "idle" /\ navItems = NoItems /\ navRendered = RenderedNull
RowIdle == rowPc = "idle" /\ assignees = NoAssignees /\ cell = EmptyCell
HistIdle == latestOk = NoLatest
CompIdle ==
    /\ mounted = FALSE /\ token = NoToken /\ taskId = "T1" /\ attachments = <<>>
    /\ isLoading = TRUE /\ error = NoError /\ selectedFile = NoFile
    /\ isUploading = FALSE /\ deleteAlertOpen = FALSE /\ deletingAttachmentId = NoId
    /\ fetches = <<>> /\ uploads = <<>> /\ deletes = <<>> /\ downloads = <<>>
    /\ isPreviewModalOpen = FALSE /\ previewAttachment = NoAttachment
    /\ previewClick = NoClick
    /\ deleteLog = <<>> /\ lastCall = NoCall

Remove(s, i) == SubSeq(s, 1, i - 1) \o SubSeq(s, i + 1, Len(s))

(***************************************************************************)
(* TaskAttachments                                                         *)
(***************************************************************************)

\* the asynchronous operations of the component that have not ended
Live(runs) == {r \in 1..Len(runs) : runs[r].pc \in {"sign", "put", "record"}}
Outstanding ==
    Len(fetches) + Cardinality(Live(uploads)) + Len(deletes) + Len(downloads)

\* the requests a call of fetchAttachments issues
ListRequests(tk) == IF tk = NoToken THEN <<>> ELSE <<"list">>

\* the toast of the catch block of each handler
CatchToastQuietDownload(handler) ==
    CASE handler = "fetchAttachments" -> "error"
      [] handler = "handleFileUpload" -> "error"
      [] handler = "confirmDelete" -> "error"
      [] OTHER -> "none"
CatchToast(handler) ==
    CASE handler = "fetchAttachments" -> "error"
      [] handler = "handleFileUpload" -> "error"
      [] handler = "confirmDelete" -> "error"
      [] handler = "handleDownload" -> "error"
      [] OTHER -> "none"

\* fetchAttachments, up to its await: without a token it returns at once;
\* otherwise it sets isLoading, clears error and issues the list request.
FetchAttachments(tk, tid) ==
    IF tk = NoToken
    THEN UNCHANGED <<isLoading, error, fetches>>
    ELSE /\ isLoading' = TRUE
         /\ error' = NoError
         /\ fetches' = Append(fetches, [token |-> tk, taskId |-> tid])

\* useState initial values; the props are whatever the parent passes
CompInit ==
    /\ mounted = FALSE
    /\ token \in Tokens \cup {NoToken}
    /\ taskId = "T1"
    /\ attachments = <<>>
    /\ isLoading = TRUE
    /\ error = NoError
    /\ selectedFile = NoFile
    /\ isUploading = FALSE
    /\ deleteAlertOpen = FALSE
    /\ deletingAttachmentId = NoId
    /\ fetches = <<>> /\ uploads = <<>> /\ deletes = <<>> /\ downloads = <<>>
    /\ isPreviewModalOpen = FALSE
    /\ previewAttachment = NoAttachment
    /\ previewClick = NoClick
    /\ deleteLog = <<>>
    /\ lastCall = NoCall

\* useEffect(() => { fetchAttachments(); }, [taskId, token]) on mount
Mount ==
    /\ ~mounted
    /\ mounted' = TRUE
    /\ FetchAttachments(token, taskId)
    /\ UNCHANGED <<token, taskId, attachments, selectedFile, isUploading,
                   deleteAlertOpen, deletingAttachmentId, uploads, deletes,
                   deleteLog>>
    /\ lastCall' = NoCall
    /\ UNCHANGED <<downloads, prevVars>>

\* the parent re-renders with other props; the effect's dependencies changed,
\* so fetchAttachments runs with the new props
SetProps(tk, tid) ==
    /\ mounted
    /\ <<tk, tid>> # <<token, taskId>>
    /\ tk # NoToken => Outstanding < MaxFetches
    /\ token' = tk
    /\ taskId' = tid
    /\ FetchAttachments(tk, tid)
    /\ UNCHANGED <<mounted, attachments, selectedFile, isUploading, deleteAlertOpen,
                   deletingAttachmentId, uploads, deletes, deleteLog>>
    /\ lastCall' = NoCall
    /\ UNCHANGED <<downloads, prevVars>>

\* data.map(att => ({...att, created_at: att.created_at || att.uploaded_at}))
FormatDataRaw(data) == data
FormatData(data) ==
    [i \in 1..Len(data) |->
        [data[i] EXCEPT !.created_at =
            IF data[i].created_at # "" THEN data[i].created_at
            ELSE data[i].uploaded_at]]


\* the list request settles: try / catch / finally of fetchAttachments
FetchSettle(i, ok, data) ==
    /\ i \in 1..Len(fetches)
    /\ fetches' = Remove(fetches, i)
    /\ IF ok
       THEN /\ attachments' = FormatData(data)
            /\ UNCHANGED error
       ELSE /\ error' = "Failed"
            /\ UNCHANGED attachments
    /\ isLoading' = FALSE
    /\ UNCHANGED <<mounted, token, taskId, selectedFile, isUploading, deleteAlertOpen,
                   deletingAttachmentId, uploads, deletes, deleteLog>>
    /\ lastCall' = IF ok THEN Call("list", "ok", "none", <<>>, data)
                   ELSE Call("list", "throw", CatchToast("fetchAttachments"),
                             <<>>, <<>>)
    /\ UNCHANGED <<downloads, prevVars>>

\* handleFileChange; the input is disabled while isUploading
HandleFileChange(f) ==
    /\ mounted
    /\ ~isUploading
    /\ f # selectedFile
    /\ selectedFile' = f
    /\ UNCHANGED <<mounted, token, taskId, attachments, isLoading, error, isUploading,
                   deleteAlertOpen, deletingAttachmentId, fetches, uploads, deletes,
                   deleteLog>>
    /\ lastCall' = NoCall
    /\ UNCHANGED <<downloads, prevVars>>

\* a run of handleFileUpload: the values its closure captured, the requests
\* it has issued with their outcomes, the toasts it has shown and the calls
\* of fetchAttachments it has made
NewRun(f, tk, tid) ==
    [pc |-> "sign", file |-> f, token |-> tk, taskId |-> tid,
     reqs |-> <<"sign">>, res |-> <<>>, toasts |-> <<>>, refetches |-> 0]
RejectedRun(f, tk, tid) ==
    [pc |-> "rejected", file |-> f, token |-> tk, taskId |-> tid,
     reqs |-> <<>>, res |-> <<>>, toasts |-> <<"error">>, refetches |-> 0]

\* the runs still in flight; the record of a finished run is kept until the
\* next run starts
IsLive(run) == run.pc \in {"sign", "put", "record"}
Unfinished(runs) == SelectSeq(runs, IsLive)

\* handleFileUpload up to its first await. The submit button is disabled
\* while isUploading or without a selected file.
HandleFileUpload ==
    /\ mounted
    /\ ~isUploading /\ selectedFile # NoFile
    /\ IF selectedFile = NoFile \/ token = NoToken
       THEN /\ uploads' = Append(Unfinished(uploads),
                                 RejectedRun(selectedFile, token, taskId))
            /\ UNCHANGED isUploading
       ELSE /\ Outstanding < MaxFetches
            /\ isUploading' = TRUE
            /\ uploads' = Append(Unfinished(uploads),
                                 NewRun(selectedFile, token, taskId))
    /\ UNCHANGED <<mounted, token, taskId, attachments, isLoading, error, selectedFile,
                   deleteAlertOpen, deletingAttachmentId, fetches, deletes, deleteLog>>
    /\ lastCall' = NoCall
    /\ UNCHANGED <<downloads, prevVars>>

\* fetchAttachments() is the last statement of the try block: it runs when
\* the step that settled last was step 3 and it succeeded
UploadRefetchAlways(step, outcome) == TRUE
UploadRefetch(step, outcome) == step = "record" /\ outcome = "ok"

\* finally { setIsUploading(false) }: the value of isUploading once the run
\* has ended with this outcome
UploadingUntilSuccess(outcome) == outcome # "ok"
UploadingAfterRun(outcome) == FALSE

\* setSelectedFile(null) is in the try block after the third await: the
\* selected file once the step of the run has settled with this outcome
SelectedClearedAlways(file, step, outcome) == NoFile
SelectedAfterStep(file, step, outcome) ==
    IF step = "record" /\ outcome = "ok" THEN NoFile ELSE file

\* catch and finally of handleFileUpload: one error toast, isUploading reset
UploadFailed(r, outcome) ==
    /\ uploads' = [uploads EXCEPT ![r].pc = "failed",
                                  ![r].res = Append(@, outcome),
                                  ![r].toasts =
                                      Append(@, CatchToast("handleFileUpload")),
                                  ![r].refetches =
                                      IF UploadRefetch(uploads[r].pc, outcome)
                                      THEN @ + 1 ELSE @]
    /\ isUploading' = UploadingAfterRun(outcome)
    /\ IF UploadRefetch(uploads[r].pc, outcome)
       THEN FetchAttachments(uploads[r].token, uploads[r].taskId)
       ELSE UNCHANGED <<isLoading, error, fetches>>
    /\ lastCall' = Call(uploads[r].pc, outcome, CatchToast("handleFileUpload"),
                        IF UploadRefetch(uploads[r].pc, outcome)
                        THEN ListRequests(uploads[r].token) ELSE <<>>, <<>>)
    /\ selectedFile' = SelectedAfterStep(selectedFile, uploads[r].pc, outcome)

\* step 1 settles: getSignedUploadUrl resolved or threw
SignOutcomes == {"ok", "throw"}
SignSettle(r, outcome) ==
    /\ r \in 1..Len(uploads) /\ uploads[r].pc = "sign"
    /\ IF outcome = "ok"
       THEN /\ uploads' = [uploads EXCEPT ![r].pc = "put",
                                          ![r].res = Append(@, outcome),
                                          ![r].reqs = Append(@, "put")]
            /\ lastCall' = Call("sign", outcome, "none", <<"put">>, <<>>)
            /\ UNCHANGED <<isUploading, selectedFile, isLoading, error, fetches>>
       ELSE UploadFailed(r, outcome)
    /\ UNCHANGED <<mounted, token, taskId, attachments, deleteAlertOpen,
                   deletingAttachmentId, deletes, deleteLog>>
    /\ UNCHANGED <<downloads, prevVars>>

\* what follows the PUT: uploadFileToGcs returns the Response untouched, a
\* network error rejects, and `if (!uploadRes.ok) throw` guards step 3
PutOutcomes == {"ok", "notok", "reject"}
AfterPutUnchecked(outcome) == IF outcome = "reject" THEN "throw" ELSE "record"
AfterPut(outcome) == IF outcome = "ok" THEN "record" ELSE "throw"

\* step 2 settles
PutSettle(r, outcome) ==
    /\ r \in 1..Len(uploads) /\ uploads[r].pc = "put"
    /\ IF AfterPut(outcome) = "record"
       THEN /\ uploads' = [uploads EXCEPT ![r].pc = "record",
                                          ![r].res = Append(@, outcome),
                                          ![r].reqs = Append(@, "record")]
            /\ lastCall' = Call("put", outcome, "none", <<"record">>, <<>>)
            /\ UNCHANGED <<isUploading, selectedFile, isLoading, error, fetches>>
       ELSE UploadFailed(r, outcome)
    /\ UNCHANGED <<mounted, token, taskId, attachments, deleteAlertOpen,
                   deletingAttachmentId, deletes, deleteLog>>
    /\ UNCHANGED <<downloads, prevVars>>

\* step 3 settles: on success the toast, the cleared selection and the
\* refetch through the run's own closure; finally resets isUploading
RecordOutcomes == {"ok", "throw"}
RecordSettle(r, outcome) ==
    /\ r \in 1..Len(uploads) /\ uploads[r].pc = "record"
    /\ IF outcome = "ok"
       THEN /\ uploads' = [uploads EXCEPT ![r].pc = "done",
                                          ![r].res = Append(@, outcome),
                                          ![r].toasts = Append(@, "success"),
                                          ![r].refetches =
                                              IF UploadRefetch("record", outcome)
                                              THEN @ + 1 ELSE @]
            /\ selectedFile' = SelectedAfterStep(selectedFile, "record", outcome)
            /\ IF UploadRefetch("record", outcome)
               THEN FetchAttachments(uploads[r].token, uploads[r].taskId)
               ELSE UNCHANGED <<isLoading, error, fetches>>
            /\ isUploading' = UploadingAfterRun(outcome)
            /\ lastCall' = Call("record", outcome, "success",
                                IF UploadRefetch("record", outcome)
                                THEN ListRequests(uploads[r].token) ELSE <<>>,
                                <<>>)
       ELSE UploadFailed(r, outcome)
    /\ UNCHANGED <<mounted, token, taskId, attachments, deleteAlertOpen,
                   deletingAttachmentId, deletes, deleteLog>>
    /\ UNCHANGED <<downloads, prevVars>>

\* events of the delete flow
Ev(kind, id) == [kind |-> kind, id |-> id]
Shown(list) == {list[i].attachment_id : i \in 1..Len(list)}

\* handleDeleteClick(attachmentId). The row's delete button exists while the
\* list is rendered and is disabled while a pending id is held.
HandleDeleteClick(a) ==
    /\ mounted
    /\ ~isLoading /\ error = NoError /\ a \in Shown(attachments)
    /\ deletingAttachmentId = NoId
    /\ deletingAttachmentId' = a
    /\ deleteAlertOpen' = TRUE
    /\ deleteLog' = <<Ev("click", a)>>
    /\ UNCHANGED <<mounted, token, taskId, attachments, isLoading, error, selectedFile,
                   isUploading, fetches, uploads, deletes>>
    /\ lastCall' = NoCall
    /\ UNCHANGED <<downloads, prevVars>>

\* AlertDialogCancel: onClick clears the pending id, the dialog closes
\* through onOpenChange = setDeleteAlertOpen
CancelDelete ==
    /\ deleteAlertOpen
    /\ deletingAttachmentId' = NoId
    /\ deleteAlertOpen' = FALSE
    /\ deleteLog' = Append(deleteLog, Ev("cancel", deletingAttachmentId))
    /\ UNCHANGED <<mounted, token, taskId, attachments, isLoading, error, selectedFile,
                   isUploading, fetches, uploads, deletes>>
    /\ lastCall' = NoCall
    /\ UNCHANGED <<downloads, prevVars>>

\* the dialog is dismissed (Escape): onOpenChange(false) alone
DismissDelete ==
    /\ deleteAlertOpen
    /\ deleteAlertOpen' = FALSE
    /\ deleteLog' = Append(deleteLog, Ev("dismiss", deletingAttachmentId))
    /\ UNCHANGED <<mounted, token, taskId, attachments, isLoading, error, selectedFile,
                   isUploading, deletingAttachmentId, fetches, uploads, deletes>>
    /\ lastCall' = NoCall
    /\ UNCHANGED <<downloads, prevVars>>

\* the id confirmDelete passes to deleteAttachment
DeleteTargetFirstRow(pending, list) ==
    IF Len(list) > 0 THEN list[1].attachment_id ELSE pending
DeleteTarget(pending, list) == pending

\* AlertDialogAction: onClick = confirmDelete, up to its await; the dialog
\* closes through onOpenChange = setDeleteAlertOpen
ConfirmDelete ==
    /\ deleteAlertOpen
    /\ deleteAlertOpen' = FALSE
    /\ IF deletingAttachmentId = NoId \/ token = NoToken
       THEN /\ deleteLog' = Append(deleteLog, Ev("confirm", deletingAttachmentId))
            /\ UNCHANGED deletes
       ELSE LET id == DeleteTarget(deletingAttachmentId, attachments) IN
            /\ Outstanding < MaxFetches
            /\ deleteLog' = deleteLog \o <<Ev("confirm", deletingAttachmentId),
                                            Ev("request", id)>>
            /\ deletes' = Append(deletes, [id |-> id, token |-> token,
                                           taskId |-> taskId])
    /\ UNCHANGED <<mounted, token, taskId, attachments, isLoading, error, selectedFile,
                   isUploading, deletingAttachmentId, fetches, uploads>>
    /\ lastCall' = NoCall
    /\ UNCHANGED <<downloads, prevVars>>

\* fetchAttachments() follows toast.success in the try block of
\* confirmDelete: it runs when the delete call succeeded
DeleteRefetchAlways(outcome) == TRUE
DeleteRefetch(outcome) == outcome = "ok"

\* the delete call settles: try / catch / finally of confirmDelete
DeleteOutcomes == {"ok", "throw"}
DeleteSettle(i, outcome) ==
    /\ i \in 1..Len(deletes)
    /\ deletes' = Remove(deletes, i)
    /\ IF DeleteRefetch(outcome)
       THEN FetchAttachments(deletes[i].token, deletes[i].taskId)
       ELSE UNCHANGED <<isLoading, error, fetches>>
    /\ lastCall' = Call("delete", outcome,
                        IF outcome = "ok" THEN "success"
                        ELSE CatchToast("confirmDelete"),
                        IF DeleteRefetch(outcome)
                        THEN ListRequests(deletes[i].token) ELSE <<>>, <<>>)
    /\ deletingAttachmentId' = NoId
    /\ deleteAlertOpen' = FALSE
    /\ deleteLog' = Append(deleteLog, Ev("settled", deletes[i].id))
    /\ UNCHANGED <<mounted, token, taskId, attachments, selectedFile, isUploading,
                   uploads>>
    /\ UNCHANGED <<downloads, prevVars>>

\* the row of the rendered list that holds attachment a
Rows(list, a) == {i \in 1..Len(list) : list[i].attachment_id = a}
ListRendered == mounted /\ ~isLoading /\ error = NoError

\* handleDownload(att.attachment_id, att.file_name) up to its await: the
\* signed download URL is requested with the token prop, defined or not;
\* the call resolves or throws either way
HandleDownload(a) ==
    /\ ListRendered /\ a \in Shown(attachments)
    /\ Outstanding < MaxFetches
    /\ downloads' = Append(downloads, [id |-> a])
    /\ lastCall' = NoCall
    /\ UNCHANGED <<mounted, token, taskId, attachments, isLoading, error, selectedFile,
                   isUploading, deleteAlertOpen, deletingAttachmentId, fetches,
                   uploads, deletes, prevVars, deleteLog>>

\* the signed-URL call settles: try / catch of handleDownload; on success
\* a temporary anchor is clicked, which changes no state of the component
DownloadOutcomes == {"ok", "throw"}
DownloadSettle(i, outcome) ==
    /\ i \in 1..Len(downloads)
    /\ downloads' = Remove(downloads, i)
    /\ lastCall' = Call("download", outcome,
                        IF outcome = "ok" THEN "none"
                        ELSE CatchToast("handleDownload"), <<>>, <<>>)
    /\ UNCHANGED <<mounted, token, taskId, attachments, isLoading, error, selectedFile,
                   isUploading, deleteAlertOpen, deletingAttachmentId, fetches,
                   uploads, deletes, prevVars, deleteLog>>

\* getAttachmentPreviewUrl: `${API_URL}/attachments/${attachmentId}/download?inline=true`
GetAttachmentPreviewUrl(attachmentId) ==
    [kind |-> "backend",
     url |-> <<"API_URL", "/attachments/", attachmentId, "/download?inline=true">>]
\* the url member of the answer of GET /attachments/{id}/signed-url
SignedUrl(attachmentId) ==
    [kind |-> "signed", url |-> <<"signed download URL of ", attachmentId>>]
\* the previewUrl prop handed to AttachmentPreviewModal at every render
PreviewUrlProp ==
    IF previewAttachment # NoAttachment
    THEN GetAttachmentPreviewUrl(previewAttachment.attachment_id)
    ELSE [kind |-> "null", url |-> <<>>]

\* handlePreviewClick(att), called with a record of the rendered list. The
\* row's preview button is rendered for a previewable attachment that is
\* not a link, so a click reaches the first branch only; the handler is
\* applied to every row, as the function it is, to cover its own test.
HandlePreviewClick(a) ==
    /\ ListRendered
    /\ \E i \in Rows(attachments, a) :
          IF CanPreviewType(attachments[i].file_type)
          THEN /\ previewAttachment' = attachments[i]
               /\ isPreviewModalOpen' = TRUE
               /\ previewClick' = Click(attachments[i], "none", ~previewClick.parity)
          ELSE /\ previewClick' = Click(attachments[i], "info", ~previewClick.parity)
               /\ UNCHANGED <<isPreviewModalOpen, previewAttachment>>
    /\ UNCHANGED <<mounted, token, taskId, attachments, isLoading, error, selectedFile,
                   isUploading, deleteAlertOpen, deletingAttachmentId, fetches,
                   uploads, deletes, downloads, deleteLog>>
    /\ lastCall' = NoCall

\* onClose of the modal: setIsPreviewModalOpen(false)
ClosePreview ==
    /\ isPreviewModalOpen
    /\ isPreviewModalOpen' = FALSE
    /\ UNCHANGED <<mounted, token, taskId, attachments, isLoading, error, selectedFile,
                   isUploading, deleteAlertOpen, deletingAttachmentId, fetches,
                   uploads, deletes, downloads, previewAttachment, previewClick,
                   deleteLog>>
    /\ lastCall' = NoCall

CompOthers == UNCHANGED <<pageVars, mimeVars, apiVars, sockVars, navVars, rowVars,
               histVars>>

Init == CompInit /\ PageIdle /\ MimeIdle /\ ApiIdle /\ SocketIdle /\ NavIdle /\ RowIdle
    /\ HistIdle

Next ==
    \/ Mount /\ CompOthers
    \/ \E tk \in Tokens \cup {NoToken}, tid \in TaskIds : SetProps(tk, tid) /\ CompOthers
    \/ \E i \in 1..Len(fetches), ok \in BOOLEAN, data \in FetchResponses :
          FetchSettle(i, ok, data) /\ CompOthers
    \/ \E f \in Files \cup {NoFile} : HandleFileChange(f) /\ CompOthers
    \/ HandleFileUpload /\ CompOthers
    \/ \E r \in 1..Len(uploads), o \in SignOutcomes : SignSettle(r, o) /\ CompOthers
    \/ \E r \in 1..Len(uploads), o \in PutOutcomes : PutSettle(r, o) /\ CompOthers
    \/ \E r \in 1..Len(uploads), o \in RecordOutcomes : RecordSettle(r, o) /\ CompOthers
    \/ \E a \in AttIds : HandleDeleteClick(a) /\ CompOthers
    \/ CancelDelete /\ CompOthers
    \/ DismissDelete /\ CompOthers
    \/ ConfirmDelete /\ CompOthers
    \/ \E i \in 1..Len(deletes), o \in DeleteOutcomes : DeleteSettle(i, o) /\ CompOthers
    \/ \E a \in AttIds : HandleDownload(a) /\ CompOthers
    \/ \E i \in 1..Len(downloads), o \in DownloadOutcomes :
          DownloadSettle(i, o) /\ CompOthers

Spec == Init /\ [][Next]_vars

\* every request in flight is answered or fails: a response that can arrive
\* does arrive. Nothing obliges the user or the parent to act.
ResponsesArrive ==
    /\ WF_vars(\E i \in 1..Len(fetches), ok \in BOOLEAN, data \in FetchResponses :
                  FetchSettle(i, ok, data) /\ CompOthers)
    /\ WF_vars(\E r \in 1..Len(uploads), o \in SignOutcomes :
                  SignSettle(r, o) /\ CompOthers)
    /\ WF_vars(\E r \in 1..Len(uploads), o \in PutOutcomes :
                  PutSettle(r, o) /\ CompOthers)
    /\ WF_vars(\E r \in 1..Len(uploads), o \in RecordOutcomes :
                  RecordSettle(r, o) /\ CompOthers)
    /\ WF_vars(\E i \in 1..Len(deletes), o \in DeleteOutcomes :
                  DeleteSettle(i, o) /\ CompOthers)
    /\ WF_vars(\E i \in 1..Len(downloads), o \in DownloadOutcomes :
                  DownloadSettle(i, o) /\ CompOthers)

\* TaskAttachments when every response arrives
SpecLive == Init /\ [][Next]_vars /\ ResponsesArrive

\* The list requests of TaskAttachments with their history. fetches holds
\* the requests in flight in the order of their issue, so the requests
\* issued before the newest one that has succeeded are its first
\* latestOk.older entries. The code keeps no such record.
TrackLatest(i, ok, data) ==
    latestOk' =
        IF i <= latestOk.older THEN [latestOk EXCEPT !.older = @ - 1]
        ELSE IF ok THEN [older |-> i - 1, data |-> data]
        ELSE latestOk

FetchOthers ==
    UNCHANGED <<pageVars, mimeVars, apiVars, sockVars, navVars, rowVars>>

NextFetch ==
    \/ Mount /\ FetchOthers /\ UNCHANGED latestOk
    \/ \E tk \in Tokens \cup {NoToken}, tid \in TaskIds :
          SetProps(tk, tid) /\ FetchOthers /\ UNCHANGED latestOk
    \/ \E i \in 1..Len(fetches), ok \in BOOLEAN, data \in FetchResponses :
          FetchSettle(i, ok, data) /\ TrackLatest(i, ok, data) /\ FetchOthers

SpecFetch == Init /\ [][NextFetch]_vars

\* the preview modal of TaskAttachments, with the list it is opened from
NextPreview ==
    \/ Mount /\ CompOthers
    \/ \E tk \in Tokens \cup {NoToken}, tid \in TaskIds : SetProps(tk, tid) /\ CompOthers
    \/ \E i \in 1..Len(fetches), ok \in BOOLEAN, data \in FetchResponses :
          FetchSettle(i, ok, data) /\ CompOthers
    \/ \E a \in AttIds : HandlePreviewClick(a) /\ CompOthers
    \/ ClosePreview /\ CompOthers
    \/ \E a \in AttIds : HandleDownload(a) /\ CompOthers
    \/ \E i \in 1..Len(downloads), o \in DownloadOutcomes :
          DownloadSettle(i, o) /\ CompOthers

SpecPreview == Init /\ [][NextPreview]_vars

(***************************************************************************)
(* TaskList pagination (specification SpecPage)                            *)
(***************************************************************************)

\* the "..." entry of pageNumbers; page numbers start at 1
Ellipsis == 0

\* Math.ceil(total / pageSize)
TotalPages(t, ps) == (t + ps - 1) \div ps

\* the props (page, pageSize, total) of a TaskList whose page is valid,
\* and those of a list of 200 tasks shown 10 to a page, at page 5
PageInputs ==
    {in \in (1..MaxTotal) \X (1..MaxPageSize) \X (0..MaxTotal) :
        in[1] <= TotalPages(in[3], in[2])}
      \cup {<<5, 10, 200>>}

PageInit ==
    /\ pgPc = "props"
    /\ \E in \in PageInputs : page = in[1] /\ pageSize = in[2] /\ total = in[3]
    /\ pgI = 1
    /\ pageNumbers = <<>>
    /\ rendered = <<>>
    /\ pageChange = NoPageChange

\* {total > pageSize && onPageChange && (<Pagination> ...)}: the pagination
\* is rendered, and the window computed, only when total > pageSize
RenderPagination ==
    /\ pgPc = "props"
    /\ pgPc' = IF total > pageSize THEN "loop" ELSE "hidden"
    /\ pgI' = 1
    /\ pageNumbers' = <<>>
    /\ UNCHANGED <<page, pageSize, total, rendered, pageChange>>

\* first branch of the loop body: the page number is pushed
IsShownNoLast(i, p, tp) == i = 1 \/ (i >= p - 2 /\ i <= p + 2)
IsShownWide(i, p, tp) == i = 1 \/ i = tp \/ (i >= p - 3 /\ i <= p + 3)
IsShownNarrow(i, p, tp) == i = 1 \/ i = tp \/ (i >= p - 1 /\ i <= p + 1)
IsShown(i, p, tp) == i = 1 \/ i = tp \/ (i >= p - 2 /\ i <= p + 2)

\* second branch of the loop body: "..." is pushed
IsGapLeftOnly(i, p, tp) == i = p - 3 /\ p - 3 > 1
IsGap(i, p, tp) == (i = p - 3 /\ p - 3 > 1) \/ (i = p + 3 /\ p + 3 < tp)

\* one iteration of for (let i = 1; i <= totalPages; i++)
LoopStep ==
    /\ pgPc = "loop"
    /\ pgI <= TotalPages(total, pageSize)
    /\ pageNumbers' =
          IF IsShown(pgI, page, TotalPages(total, pageSize))
          THEN Append(pageNumbers, pgI)
          ELSE IF IsGap(pgI, page, TotalPages(total, pageSize))
               THEN Append(pageNumbers, Ellipsis)
               ELSE pageNumbers
    /\ pgI' = pgI + 1
    /\ UNCHANGED <<pgPc, page, pageSize, total, rendered, pageChange>>

\* pageNumbers.map(...) with lastWasEllipsis: an ellipsis that follows an
\* ellipsis renders as null, every other entry renders as one item
RECURSIVE RenderItems(_, _, _)
RenderItems(nums, idx, lastWasEllipsis) ==
    IF idx > Len(nums) THEN <<>>
    ELSE IF nums[idx] = Ellipsis
         THEN IF lastWasEllipsis
              THEN RenderItems(nums, idx + 1, TRUE)
              ELSE <<Ellipsis>> \o RenderItems(nums, idx + 1, TRUE)
         ELSE <<nums[idx]>> \o RenderItems(nums, idx + 1, FALSE)

\* the loop has ended; the items are rendered
RenderWindow ==
    /\ pgPc = "loop"
    /\ pgI > TotalPages(total, pageSize)
    /\ rendered' = RenderItems(pageNumbers, 1, FALSE)
    /\ pgPc' = "rendered"
    /\ UNCHANGED <<page, pageSize, total, pgI, pageNumbers, pageChange>>

\* Math.max(1, page - 1)
Max(a, b) == IF a >= b THEN a ELSE b

\* a click on a control of the rendered pagination calls onPageChange; the
\* page shown is a prop, which the click itself does not change
OnPageChange(control, num) ==
    /\ pgPc = "rendered"
    /\ pageChange = NoPageChange
    /\ pageChange' = PageChange(control, num)
    /\ UNCHANGED <<pgPc, page, pageSize, total, pgI, pageNumbers, rendered>>

\* PaginationPrevious: onClick={() => onPageChange(Math.max(1, page - 1))};
\* aria-disabled and tabIndex do not take the handler away
ClickPrevious == OnPageChange("previous", Max(1, page - 1))

\* PaginationLink: onClick={() => onPageChange(Number(num))}
ClickLink(k) ==
    /\ k \in 1..Len(rendered)
    /\ rendered[k] # Ellipsis
    /\ OnPageChange("link", rendered[k])

\* PaginationNext: onClick={() => onPageChange(page + 1)}; aria-disabled and
\* tabIndex do not take the handler away
ClickNext == OnPageChange("next", page + 1)

PageOthers == UNCHANGED <<compVars, mimeVars, apiVars, sockVars, navVars, rowVars,
               histVars>>

NextPage ==
    \/ RenderPagination /\ PageOthers
    \/ LoopStep /\ PageOthers
    \/ RenderWindow /\ PageOthers
    \/ ClickPrevious /\ PageOthers
    \/ \E k \in 1..Len(rendered) : ClickLink(k) /\ PageOthers
    \/ ClickNext /\ PageOthers

InitPage ==
    PageInit /\ CompIdle /\ MimeIdle /\ ApiIdle /\ SocketIdle /\ NavIdle /\ RowIdle
    /\ HistIdle

SpecPage == InitPage /\ [][NextPage]_vars

(***************************************************************************)
(* Properties of the pagination window (specification SpecPage)            *)
(***************************************************************************)
Occurrences(seq, x) == Cardinality({k \in 1..Len(seq) : seq[k] = x})
Numbers(seq) == SelectSeq(seq, LAMBDA x : x # Ellipsis)

\* C4: for every valid (page, pageSize, total) the rendered window holds
\* page 1 exactly once, the last page exactly once, the current page, and
\* no two adjacent ellipsis markers.
C4_WindowEnds ==
    pgPc = "rendered" =>
        /\ Occurrences(rendered, 1) = 1
        /\ Occurrences(rendered, TotalPages(total, pageSize)) = 1
        /\ Occurrences(rendered, page) >= 1
        /\ \A k \in 1..(Len(rendered) - 1) :
              ~(rendered[k] = Ellipsis /\ rendered[k + 1] = Ellipsis)

\* a window with an ellipsis on either side of the current page
C4_Witness ==
    /\ pgPc = "rendered"
    /\ Occurrences(rendered, Ellipsis) = 2
    /\ page > 4 /\ page + 4 < TotalPages(total, pageSize)

\* C5: a page number i of 1..totalPages is in the rendered window if and
\* only if i = 1, i = totalPages or |i - page| <= 2; the numbers appear in
\* strictly ascending order (hence without duplicates).
C5_WindowMembers ==
    pgPc = "rendered" =>
        LET nums == Numbers(rendered) IN
        /\ \A i \in 1..TotalPages(total, pageSize) :
              (\E k \in 1..Len(nums) : nums[k] = i) <=>
                 (i = 1 \/ i = TotalPages(total, pageSize)
                    \/ (i - page <= 2 /\ page - i <= 2))
        /\ \A k \in 1..Len(nums) : nums[k] \in 1..TotalPages(total, pageSize)
        /\ \A k \in 1..(Len(nums) - 1) : nums[k] < nums[k + 1]

\* a window that omits pages and shows the two neighbours on each side
C5_Witness ==
    /\ pgPc = "rendered"
    /\ page = 6
    /\ Numbers(rendered) = <<1, 4, 5, 6, 7, 8, 12>>

\* C6: between two consecutive page numbers of the window there is exactly
\* one ellipsis when they differ by more than 1 and none when they differ
\* by 1; the window begins and ends with a number, so every omitted page
\* is covered by an ellipsis, and it holds at most two ellipsis markers.
C6_GapsCollapsed ==
    pgPc = "rendered" =>
        /\ Len(rendered) >= 2
        /\ rendered[1] # Ellipsis /\ rendered[Len(rendered)] # Ellipsis
        /\ \A k \in 1..(Len(rendered) - 1) :
              /\ (rendered[k] # Ellipsis /\ rendered[k + 1] # Ellipsis)
                    => rendered[k + 1] = rendered[k] + 1
              /\ (rendered[k] # Ellipsis /\ rendered[k + 1] = Ellipsis)
                    => /\ k + 2 <= Len(rendered)
                       /\ rendered[k + 2] # Ellipsis
                       /\ rendered[k + 2] > rendered[k] + 1
        /\ Occurrences(rendered, Ellipsis) <= 2

\* a window whose left gap is the single page 2 and whose right gap is wide
C6_Witness ==
    /\ pgPc = "rendered"
    /\ page = 5
    /\ rendered = <<1, Ellipsis, 3, 4, 5, 6, 7, Ellipsis, 14>>

\* C18: for page = 5, pageSize = 10, total = 200 (20 pages) the rendered
\* window is exactly 1, ellipsis, 3, 4, 5, 6, 7, ellipsis, 20.
C18_WindowOfPageFive ==
    (pgPc = "rendered" /\ page = 5 /\ pageSize = 10 /\ total = 200) =>
        rendered = <<1, Ellipsis, 3, 4, 5, 6, 7, Ellipsis, 20>>

\* the window of that input has been rendered from the 20 pages
C18_Witness ==
    /\ pgPc = "rendered" /\ page = 5 /\ pageSize = 10 /\ total = 200
    /\ pgI = 21
    /\ Len(rendered) = 9

\* C26: when the pagination is rendered (total > pageSize) for a page in
\* 1..totalPages, every page number that Previous, Next or a numbered link
\* passes to onPageChange lies in 1..totalPages.
C26_PageChangeInRange ==
    pageChange # NoPageChange =>
        pageChange.page \in 1..TotalPages(total, pageSize)

(***************************************************************************)
(* canPreviewType (specification SpecMime)                                 *)
(***************************************************************************)
\* the types tried: a head followed by up to MaxSuffix more characters
MimeHeads ==
    { <<>>, ImagePrefix, VideoPrefix, PdfType,
      <<"i", "m", "a", "g", "e">>,
      <<"x">> \o VideoPrefix,
      <<"a", "p", "p", "l", "i", "c", "a", "t", "i", "o", "n", "/">>,
      <<"t", "e", "x", "t", "/">>,
      <<"l", "i", "n", "k">> }
MimeTails == UNION {[1..n -> {"p", ";"}] : n \in 0..MaxSuffix}
MimeInputs == {h \o t : h \in MimeHeads, t \in MimeTails} \cup {NullType}

MimeInit ==
    /\ mimePc = "input"
    /\ fileType \in MimeInputs
    /\ canPreview = FALSE
    /\ modalContent = "none"

CallCanPreviewType ==
    /\ mimePc = "input"
    /\ canPreview' = CanPreviewType(fileType)
    /\ mimePc' = "done"
    /\ UNCHANGED <<fileType, modalContent>>

\* isImage, isVideo: type?.startsWith(...); isPdf: type === "application/pdf"
IsImage(type) == type # NullType /\ StartsWith(type, ImagePrefix)
IsVideo(type) == type # NullType /\ StartsWith(type, VideoPrefix)
IsPdf(type) == type = PdfType

\* what AttachmentPreviewModal renders for a file type when it is open with
\* a preview URL and a file name: nothing for a falsy type, else the first
\* of image, video, PDF frame that matches, else the fallback text
ModalContent(type) ==
    IF type = NullType \/ type = <<>> THEN "null"
    ELSE IF IsImage(type) THEN "image"
    ELSE IF IsVideo(type) THEN "video"
    ELSE IF IsPdf(type) THEN "pdf"
    ELSE "fallback"

\* the modal is rendered for the type the list has tested
RenderPreviewModal ==
    /\ mimePc = "done"
    /\ modalContent' = ModalContent(fileType)
    /\ mimePc' = "rendered"
    /\ UNCHANGED <<fileType, canPreview>>

MimeOthers == UNCHANGED <<compVars, pageVars, apiVars, sockVars, navVars, rowVars,
               histVars>>

NextMime ==
    \/ CallCanPreviewType /\ MimeOthers
    \/ RenderPreviewModal /\ MimeOthers

InitMime ==
    MimeInit /\ CompIdle /\ PageIdle /\ ApiIdle /\ SocketIdle /\ NavIdle /\ RowIdle
    /\ HistIdle

SpecMime == InitMime /\ [][NextMime]_vars

\* C7: canPreviewType is true if and only if the type starts with "image/",
\* starts with "video/" or equals "application/pdf"; a null or empty type
\* is not eligible.
C7_PreviewEligibility ==
    mimePc = "done" =>
        /\ canPreview <=>
              /\ fileType # NullType
              /\ \/ StartsWith(fileType, ImagePrefix)
                 \/ StartsWith(fileType, VideoPrefix)
                 \/ fileType = PdfType
        /\ (fileType = NullType \/ fileType = <<>>) => ~canPreview

\* C25: every file type that canPreviewType accepts is rendered inline by
\* AttachmentPreviewModal as an image, a video or a PDF frame, never as the
\* "Preview not available" fallback.
C25_EligibleRenderedInline ==
    (mimePc = "rendered" /\ canPreview) =>
        modalContent \in {"image", "video", "pdf"}

(***************************************************************************)
(* The API client functions (specification SpecApi)                        *)
(* A message is the sequence of the pieces its template joins.             *)
(***************************************************************************)
TaskFunctions ==
    {"createTask", "getAllTasks", "getTask", "updateTask", "deleteTask",
     "getTaskAssignees", "assignUserToTask", "unassignUserFromTask", "getUserTasks"}
AttachmentFunctions ==
    {"createAttachment", "uploadAttachment", "getTaskAttachments", "getAllAttachments",
     "getAttachment", "updateAttachment", "deleteAttachment",
     "getAttachmentSignedDownloadUrl", "getSignedUploadUrl", "uploadFileToGcs",
     "createAttachmentRecord"}
AuthFunctions == {"userLogIn", "userRegister"}
ApiFunctions == TaskFunctions \cup AttachmentFunctions \cup AuthFunctions

\* how a function gets its bearer token:
\*   "session"  if (!token) { session = await getServerSession(...); throw or use }
\*   "required" if (!token) throw
\*   "none"     no token parameter
TokenMode(fn) ==
    IF fn \in AuthFunctions \cup {"uploadFileToGcs"} THEN "none"
    ELSE IF fn = "deleteTask" THEN "required"
    ELSE "session"

\* how a function treats a response that is not ok:
\*   "text"    await response.text(); try JSON.parse catch -> status message
\*   "tryjson" try await response.json() catch -> status message
\*   "json"    await response.json(), unguarded
\*   "fixed"   a fixed message, the body is not read
\*   "none"    the Response is returned as it is
ErrorMode(fn) ==
    IF fn \in TaskFunctions THEN "text"
    ELSE IF fn \in {"uploadAttachment", "deleteAttachment"} THEN "tryjson"
    ELSE IF fn = "userRegister" THEN "fixed"
    ELSE IF fn = "uploadFileToGcs" THEN "none"
    ELSE "json"

\* how a function treats an ok response:
\*   "void204"  status 204 -> return; otherwise try response.json() (deleteTask)
\*   "msg204"   status 204 -> a synthetic message; otherwise try response.json()
\*   "tryjson"  try response.json() catch -> "Received OK status ..." error
\*   "json"     return response.json(), unguarded
\*   "field"    data = await response.json(), then a member of data is read
\*   "none"     the Response is returned as it is
SuccessModeNo204(fn) ==
    IF fn \in TaskFunctions \cup {"uploadAttachment", "deleteAttachment"} THEN "tryjson"
    ELSE IF fn = "uploadFileToGcs" THEN "none"
    ELSE IF fn \in {"getAttachmentSignedDownloadUrl", "userLogIn"} THEN "field"
    ELSE "json"
SuccessMode(fn) ==
    IF fn = "deleteTask" THEN "void204"
    ELSE IF fn \in {"deleteAttachment", "unassignUserFromTask"} THEN "msg204"
    ELSE IF fn \in TaskFunctions \cup {"uploadAttachment"} THEN "tryjson"
    ELSE IF fn = "uploadFileToGcs" THEN "none"
    ELSE IF fn \in {"getAttachmentSignedDownloadUrl", "userLogIn"} THEN "field"
    ELSE "json"

\* the text a function's error messages start with or fall back to
FailText(fn) ==
    CASE fn = "createTask" -> "Failed to create task"
      [] fn = "getAllTasks" -> "Failed to fetch tasks"
      [] fn = "getTask" -> "Failed to fetch task"
      [] fn = "updateTask" -> "Failed to update task"
      [] fn = "deleteTask" -> "Failed to delete task"
      [] fn = "getTaskAssignees" -> "Failed to fetch task assignees"
      [] fn = "assignUserToTask" -> "Failed to assign user to task"
      [] fn = "unassignUserFromTask" -> "Failed to unassign user from task"
      [] fn = "getUserTasks" -> "Failed to fetch user tasks"
      [] fn = "createAttachment" -> "Failed to create attachment"
      [] fn = "uploadAttachment" -> "Failed to upload attachment"
      [] fn \in {"getTaskAttachments", "getAllAttachments"} -> "Failed to fetch attachments"
      [] fn = "getAttachment" -> "Failed to fetch attachment"
      [] fn = "updateAttachment" -> "Failed to update attachment"
      [] fn = "deleteAttachment" -> "Failed to delete attachment"
      [] fn = "getAttachmentSignedDownloadUrl" -> "Failed to get signed download URL"
      [] fn = "getSignedUploadUrl" -> "Failed to get signed upload URL"
      [] fn = "createAttachmentRecord" -> "Failed to create attachment record"
      [] fn = "userLogIn" -> "Authentication failed"
      [] fn = "userRegister" -> "Failed to register"
      [] OTHER -> ""

\* response bodies: not JSON at all, empty, the JSON value null, or a JSON
\* object whose error member is absent, "" or a text
Absent == "undefined"
Body(kind, err) == [kind |-> kind, error |-> err]
Bodies ==
    { Body("notjson", Absent), Body("empty", Absent), Body("null", Absent),
      Body("object", Absent), Body("object", ""), Body("object", "E1") }
BodyText(b) ==
    CASE b.kind = "notjson" -> "<html>Bad Gateway</html>"
      [] b.kind = "empty" -> ""
      [] b.kind = "null" -> "null"
      [] b.error = Absent -> "{}"
      [] b.error = "" -> "{\"error\":\"\"}"
      [] OTHER -> "{\"error\":\"E1\"}"
\* JSON.parse / response.json() succeeds
Parseable(b) == b.kind \in {"null", "object"}

\* responses: a 204 has no body
Statuses == {200, 204, 404, 500}
Responses ==
    {r \in [status : Statuses, body : Bodies] : r.status = 204 => r.body.kind = "empty"}
\* response.ok
Ok(r) == r.status >= 200 /\ r.status <= 299
\* ${response.status} and ${response.statusText}
StatusStr(st) ==
    CASE st = 200 -> "200" [] st = 204 -> "204" [] st = 404 -> "404" [] OTHER -> "500"
StatusText(st) ==
    CASE st = 200 -> "OK" [] st = 204 -> "No Content" [] st = 404 -> "Not Found"
      [] OTHER -> "Internal Server Error"

Throw(name, msg) == [kind |-> "throw", name |-> name, message |-> msg]
Resolve(value) == [kind |-> "resolve", value |-> value]
\* JavaScript truthiness of an error member
Truthy(e) == e # Absent /\ e # ""
\* `${text}: ${response.status} ${response.statusText}`
StatusMessage(fn, r) ==
    <<FailText(fn), ": ", StatusStr(r.status), " ", StatusText(r.status)>>
\* what response.json() throws on a body that is not JSON
JsonSyntaxError(r) == Throw("SyntaxError", <<"Unexpected token in JSON: ", BodyText(r.body)>>)

\* the if (!response.ok) block
ErrorOutcome(fn, r) ==
    CASE ErrorMode(fn) = "text" ->
           IF ~Parseable(r.body)
           THEN Throw("Error", StatusMessage(fn, r)
                               \o <<". Server responded with: ", BodyText(r.body)>>)
           ELSE IF Truthy(r.body.error) THEN Throw("Error", <<r.body.error>>)
           ELSE Throw("Error", StatusMessage(fn, r))
      [] ErrorMode(fn) = "tryjson" ->
           IF ~Parseable(r.body) THEN Throw("Error", StatusMessage(fn, r))
           ELSE IF Truthy(r.body.error) THEN Throw("Error", <<r.body.error>>)
           ELSE Throw("Error", StatusMessage(fn, r))
      [] ErrorMode(fn) = "json" ->
           IF ~Parseable(r.body) THEN JsonSyntaxError(r)
           ELSE IF r.body.kind = "null"
                THEN Throw("TypeError", <<"Cannot read properties of null">>)
           ELSE IF Truthy(r.body.error) THEN Throw("Error", <<r.body.error>>)
           ELSE Throw("Error", <<FailText(fn)>>)
      [] ErrorMode(fn) = "fixed" -> Throw("Error", <<FailText(fn)>>)
      [] OTHER -> Resolve("response")

OkParseError(r) ==
    Throw("Error", <<"Received OK status (", StatusStr(r.status),
                     ") but failed to parse JSON response.">>)

\* what follows the if (!response.ok) block
SuccessOutcome(fn, r) ==
    CASE SuccessMode(fn) = "void204" ->
           IF r.status = 204 THEN Resolve("void")
           ELSE IF Parseable(r.body) THEN Resolve("void") ELSE OkParseError(r)
      [] SuccessMode(fn) = "msg204" ->
           IF r.status = 204 THEN Resolve("synthetic message")
           ELSE IF Parseable(r.body) THEN Resolve("json") ELSE OkParseError(r)
      [] SuccessMode(fn) = "tryjson" ->
           IF Parseable(r.body) THEN Resolve("json") ELSE OkParseError(r)
      [] SuccessMode(fn) = "json" ->
           IF Parseable(r.body) THEN Resolve("json") ELSE JsonSyntaxError(r)
      [] SuccessMode(fn) = "field" ->
           IF ~Parseable(r.body) THEN JsonSyntaxError(r)
           ELSE IF r.body.kind = "null"
                THEN Throw("TypeError", <<"Cannot read properties of null">>)
           ELSE Resolve("json")
      [] OTHER -> Resolve("response")

\* whether the function tries to parse the body of r as JSON
ParsesBody(fn, r) ==
    IF Ok(r)
    THEN /\ SuccessMode(fn) # "none"
         /\ ~(SuccessMode(fn) \in {"void204", "msg204"} /\ r.status = 204)
    ELSE ErrorMode(fn) \in {"text", "tryjson", "json"}

ApiInit ==
    /\ apiPc = "call"
    /\ apiFn \in ApiFunctions
    /\ apiToken \in {NoToken, "tok"}
    /\ apiSession \in {NoToken, "sess"}
    /\ apiBearer = NoToken
    /\ apiResponse = "none"
    /\ apiRequests = <<>>
    /\ apiParsed = FALSE
    /\ apiResult = [kind |-> "pending"]

\* the token block at the head of the function
ResolveToken ==
    /\ apiPc = "call"
    /\ CASE TokenMode(apiFn) = "none" ->
              /\ apiPc' = "send"
              /\ UNCHANGED <<apiBearer, apiResult>>
         [] apiToken # NoToken ->
              /\ apiPc' = "send"
              /\ apiBearer' = apiToken
              /\ UNCHANGED apiResult
         [] TokenMode(apiFn) = "required" ->
              /\ apiPc' = "done"
              /\ apiResult' = Throw("Error", <<"Authentication token is required.">>)
              /\ UNCHANGED apiBearer
         [] OTHER ->
              IF apiSession = NoToken
              THEN /\ apiPc' = "done"
                   /\ apiResult' = Throw("Error", <<"No authentication token">>)
                   /\ UNCHANGED apiBearer
              ELSE /\ apiPc' = "send"
                   /\ apiBearer' = apiSession
                   /\ UNCHANGED apiResult
    /\ UNCHANGED <<apiFn, apiToken, apiSession, apiResponse, apiRequests, apiParsed>>

\* await fetch(...): the request goes out with the bearer token, the
\* backend answers
Fetch(r) ==
    /\ apiPc = "send"
    /\ apiRequests' = Append(apiRequests, [fn |-> apiFn, bearer |-> apiBearer])
    /\ apiResponse' = r
    /\ apiPc' = "response"
    /\ UNCHANGED <<apiFn, apiToken, apiSession, apiBearer, apiParsed, apiResult>>

\* the rest of the function
HandleResponse ==
    /\ apiPc = "response"
    /\ apiResult' = IF Ok(apiResponse) THEN SuccessOutcome(apiFn, apiResponse)
                    ELSE ErrorOutcome(apiFn, apiResponse)
    /\ apiParsed' = ParsesBody(apiFn, apiResponse)
    /\ apiPc' = "done"
    /\ UNCHANGED <<apiFn, apiToken, apiSession, apiBearer, apiResponse, apiRequests>>

ApiOthers == UNCHANGED <<compVars, pageVars, mimeVars, sockVars, navVars, rowVars,
               histVars>>

NextApi ==
    \/ ResolveToken /\ ApiOthers
    \/ \E r \in Responses : Fetch(r) /\ ApiOthers
    \/ HandleResponse /\ ApiOthers

InitApi ==
    ApiInit /\ CompIdle /\ PageIdle /\ MimeIdle /\ SocketIdle /\ NavIdle /\ RowIdle
    /\ HistIdle

SpecApi == InitApi /\ [][NextApi]_vars

(***************************************************************************)
(* Properties of the API client functions (specification SpecApi)          *)
(***************************************************************************)
Contains(msg, piece) == \E k \in 1..Len(msg) : msg[k] = piece

\* C8: every API client function, given a non-OK response whose body is
\* not parseable JSON, throws an error whose message includes the HTTP
\* status code.
C8_StatusInMessage ==
    (apiPc = "done" /\ apiRequests # <<>> /\ apiFn # "uploadFileToGcs"
       /\ ~Ok(apiResponse) /\ ~Parseable(apiResponse.body)) =>
        /\ apiResult.kind = "throw"
        /\ Contains(apiResult.message, StatusStr(apiResponse.status))

\* C9: every API client function (resource functions, userLogIn and
\* userRegister), given a non-OK response whose body is JSON with an error
\* field, throws an error whose message is that field's value.
C9_ErrorFieldIsMessage ==
    (apiPc = "done" /\ apiRequests # <<>> /\ apiFn # "uploadFileToGcs"
       /\ ~Ok(apiResponse) /\ apiResponse.body.kind = "object"
       /\ Truthy(apiResponse.body.error)) =>
        /\ apiResult.kind = "throw"
        /\ apiResult.message = <<apiResponse.body.error>>

\* C10: every resource function uses a supplied token as it is, otherwise
\* the token of the ambient session, and throws only when neither exists,
\* before any HTTP request.
C10_TokenResolution ==
    TokenMode(apiFn) # "none" =>
        /\ \A k \in 1..Len(apiRequests) :
              apiRequests[k].bearer =
                 IF apiToken # NoToken THEN apiToken ELSE apiSession
        /\ (apiPc = "done" /\ apiRequests = <<>>) <=>
              (apiPc \in {"send", "response", "done"}
                 /\ apiToken = NoToken /\ apiSession = NoToken)
        /\ (apiPc = "done" /\ apiRequests = <<>>) => apiResult.kind = "throw"

DeleteFunctions == {"deleteTask", "deleteAttachment", "unassignUserFromTask"}

\* C11: deleteTask, deleteAttachment and unassignUserFromTask, given a 204
\* response, resolve (with nothing, or with a synthetic success message)
\* and make no attempt to parse the response body as JSON.
C11_NoContentNotParsed ==
    (apiPc = "done" /\ apiRequests # <<>> /\ apiFn \in DeleteFunctions
       /\ apiResponse.status = 204) =>
        /\ apiResult.kind = "resolve"
        /\ apiResult.value = IF apiFn = "deleteTask" THEN "void"
                             ELSE "synthetic message"
        /\ ~apiParsed

\* deleteAttachment has answered a 204 whose body is empty
C11_Witness ==
    /\ apiPc = "done"
    /\ apiFn = "deleteAttachment"
    /\ apiRequests # <<>> /\ apiResponse.status = 204
    /\ apiResponse.body.kind = "empty"
    /\ apiResult = Resolve("synthetic message")

(***************************************************************************)
(* useSocket (specification SpecSocket)                                    *)
(***************************************************************************)
Events == {"e1", "e2"}
Handlers == {"h1", "h2"}
\* socketRef.current: null, or the position of the socket in sockets
NoSocket == 0

\* socket.on(event, handler) and socket.off(event, handler) on the list of
\* listeners of a socket: on appends, off removes the first equal listener
On(listeners, event, handler) == Append(listeners, <<event, handler>>)
Off(listeners, event, handler) ==
    LET hits == {k \in 1..Len(listeners) : listeners[k] = <<event, handler>>} IN
    IF hits = {} THEN listeners
    ELSE Remove(listeners, CHOOSE k \in hits : \A j \in hits : k <= j)

\* io(SOCKET_URL, {withCredentials: true}): a new socket, connecting
NewSocket == [listeners |-> <<>>, disconnected |-> FALSE]

\* a component instance before its first effect: useRef(null)
NewHook(event, handler) ==
    [mounted |-> FALSE, socketRef |-> NoSocket, event |-> event, handler |-> handler]

\* the cleanup function of the effect: socket.off(event, handler) with the
\* event and handler of the effect run that returned it; disconnect() is
\* commented out
CleanupKeepsListener(sock, event, handler) == sock
Cleanup(sock, event, handler) ==
    [sock EXCEPT !.listeners = Off(@, event, handler)]

SocketInit == hooks = <<>> /\ sockets = <<>>

\* a component that calls useSocket(event, handler) renders for the first
\* time and its effect runs: the ref is null, so io() is called
MountHook(event, handler) ==
    /\ Len(hooks) < MaxHooks
    /\ Len(sockets) < MaxSockets
    /\ sockets' = Append(sockets, [NewSocket EXCEPT
                                      !.listeners = On(@, event, handler)])
    /\ hooks' = Append(hooks, [NewHook(event, handler) EXCEPT
                                  !.mounted = TRUE,
                                  !.socketRef = Len(sockets) + 1])

\* a render with another event or handler: the cleanup of the previous
\* effect run, then the effect again; the ref holds the socket
Resubscribe(c, event, handler) ==
    /\ c \in 1..Len(hooks)
    /\ hooks[c].mounted
    /\ <<event, handler>> # <<hooks[c].event, hooks[c].handler>>
    /\ LET ref == hooks[c].socketRef
           cleaned == Cleanup(sockets[ref], hooks[c].event, hooks[c].handler) IN
       sockets' = [sockets EXCEPT ![ref] =
                      [cleaned EXCEPT !.listeners = On(@, event, handler)]]
    /\ hooks' = [hooks EXCEPT ![c].event = event, ![c].handler = handler]

\* the component unmounts: the cleanup of the last effect run; the
\* instance, with its ref, is gone
UnmountHook(c) ==
    /\ c \in 1..Len(hooks)
    /\ hooks[c].mounted
    /\ LET ref == hooks[c].socketRef IN
       sockets' = [sockets EXCEPT ![ref] =
                      Cleanup(@, hooks[c].event, hooks[c].handler)]
    /\ hooks' = Remove(hooks, c)

SocketOthers == UNCHANGED <<compVars, pageVars, mimeVars, apiVars, navVars, rowVars,
               histVars>>

NextSocket ==
    \/ \E e \in Events, h \in Handlers : MountHook(e, h) /\ SocketOthers
    \/ \E c \in 1..Len(hooks), e \in Events, h \in Handlers :
          Resubscribe(c, e, h) /\ SocketOthers
    \/ \E c \in 1..Len(hooks) : UnmountHook(c) /\ SocketOthers

InitSocket ==
    SocketInit /\ CompIdle /\ PageIdle /\ MimeIdle /\ ApiIdle /\ NavIdle /\ RowIdle
    /\ HistIdle

SpecSocket == InitSocket /\ [][NextSocket]_vars

(***************************************************************************)
(* Properties of useSocket (specification SpecSocket)                      *)
(***************************************************************************)
\* the sockets held by the ref of a mounted instance
Held == {hooks[c].socketRef : c \in 1..Len(hooks)}

\* C15: after any sequence of mount, re-subscription and unmount, the
\* listeners on the socket of a mounted useSocket instance are exactly the
\* one (event, handler) pair of its current subscription, the socket of an
\* unmounted instance has no listener, and no socket has been disconnected
\* by the hook.
C15_OneListener ==
    /\ \A c \in 1..Len(hooks) :
          /\ hooks[c].socketRef \in 1..Len(sockets)
          /\ sockets[hooks[c].socketRef].listeners =
                <<<<hooks[c].event, hooks[c].handler>>>>
    /\ \A k \in 1..Len(sockets) :
          /\ k \notin Held => sockets[k].listeners = <<>>
          /\ ~sockets[k].disconnected

\* one instance has re-subscribed from (e1, h1) to (e2, h2) and another
\* has unmounted after it
C15_Witness ==
    /\ Len(sockets) = 2 /\ Len(hooks) = 1
    /\ sockets[1].listeners = <<<<"e2", "h2">>>>
    /\ sockets[2].listeners = <<>>

\* C19: all useSocket subscriptions share one socket connection: at most
\* one socket connection is ever opened, whatever the number of components
\* that use the hook and of re-subscriptions.
C19_OneConnection == Len(sockets) <= 1

(***************************************************************************)
(* ProjectNav (specification SpecNav)                                      *)
(***************************************************************************)
ProjectIds == {"p1", "p2"}
ProjectNames == {"n1", "n2"}
Projects == [project_id : ProjectIds, project_name : ProjectNames]

\* the lists of at most n projects
ListsUpTo(S, n) == UNION {[1..k -> S] : k \in 0..n}

NavInputs == {Some(l) : l \in ListsUpTo(Projects, MaxItems)} \cup {NoItems}

NavInit ==
    /\ navPc = "props"
    /\ navItems \in NavInputs
    /\ navRendered = RenderedNull

\* self.findIndex((t) => t.project_id === id), counted from 1; 0: not found
FindLastIndex(self, id) ==
    LET hits == {k \in 1..Len(self) : self[k].project_id = id}
    IN IF hits = {} THEN 0 ELSE CHOOSE k \in hits : \A j \in hits : j <= k
FindIndex(self, id) ==
    LET hits == {k \in 1..Len(self) : self[k].project_id = id}
    IN IF hits = {} THEN 0 ELSE CHOOSE k \in hits : \A j \in hits : k <= j

\* items.filter((item, index, self) => index === self.findIndex(...)),
\* from position index on
RECURSIVE UniqueFrom(_, _)
UniqueFrom(items, index) ==
    IF index > Len(items) THEN <<>>
    ELSE IF index = FindIndex(items, items[index].project_id)
         THEN <<items[index]>> \o UniqueFrom(items, index + 1)
         ELSE UniqueFrom(items, index + 1)
UniqueItems(items) == UniqueFrom(items, 1)

\* ProjectNav: null for no items, else one entry per element of uniqueItems
RenderProjectNav ==
    /\ navPc = "props"
    /\ navRendered' = IF ~navItems.defined \/ Len(navItems.list) = 0
                      THEN RenderedNull
                      ELSE RenderedGroup(UniqueItems(navItems.list))
    /\ navPc' = "rendered"
    /\ UNCHANGED navItems

NavOthers ==
    UNCHANGED <<compVars, pageVars, mimeVars, apiVars, sockVars, rowVars, histVars>>

NextNav == RenderProjectNav /\ NavOthers

InitNav ==
    NavInit /\ CompIdle /\ PageIdle /\ MimeIdle /\ ApiIdle /\ SocketIdle /\ RowIdle
    /\ HistIdle

SpecNav == InitNav /\ [][NextNav]_vars

\* the positions of a list that hold the first occurrence of a project_id
FirstOccurrences(list) ==
    {k \in 1..Len(list) :
        \A j \in 1..(k - 1) : list[j].project_id # list[k].project_id}

\* C28: ProjectNav renders one entry per distinct project_id, the first
\* occurrence of each, in the order of the input; no two entries share a
\* project_id and no project_id of the input is missing. For an undefined
\* or empty list it renders nothing.
C28_OneEntryPerProject ==
    navPc = "rendered" =>
        IF ~navItems.defined \/ navItems.list = <<>>
        THEN navRendered = RenderedNull
        ELSE LET list == navItems.list
                 e == navRendered.entries
             IN /\ ~navRendered.null
                /\ \A i, j \in 1..Len(e) :
                      i # j => e[i].project_id # e[j].project_id
                /\ {e[i].project_id : i \in 1..Len(e)} =
                      {list[k].project_id : k \in 1..Len(list)}
                /\ \A i \in 1..Len(e) :
                      \E k \in FirstOccurrences(list) :
                          /\ e[i] = list[k]
                          /\ Cardinality({j \in FirstOccurrences(list) : j < k})
                                = i - 1

\* a list in which a project_id comes back under another name
C28_Witness ==
    /\ navPc = "rendered"
    /\ Len(navItems.list) = 3
    /\ navItems.list[1].project_id = "p1" /\ navItems.list[1].project_name = "n1"
    /\ navItems.list[2].project_id = "p2"
    /\ navItems.list[3].project_id = "p1" /\ navItems.list[3].project_name = "n2"
    /\ Len(navRendered.entries) = 2
    /\ navRendered.entries[1] = navItems.list[1]

(***************************************************************************)
(* The assignees cell of a TaskList row (specification SpecRow)            *)
(***************************************************************************)
Users == {"u1", "u2"}

RowInputs == {Some(l) : l \in ListsUpTo(Users, MaxAssignees)} \cup {NoAssignees}

RowInit ==
    /\ rowPc = "props"
    /\ assignees \in RowInputs
    /\ cell = EmptyCell

\* the avatars shown before the "+N" avatar: slice(0, 3)
MaxAvatars == 3

\* Array.prototype.slice(0, n)
Slice(list, n) == SubSeq(list, 1, IF Len(list) < n THEN Len(list) ELSE n)

\* task.assignees?.slice(0, 3).map(...): undefined, which renders as
\* nothing, when assignees is null
Avatars(a) == IF a.defined THEN Slice(a.list, MaxAvatars) ELSE <<>>

\* task.assignees && task.assignees.length > 3 && (<Avatar>+{length - 3})
More(a) ==
    IF a.defined /\ Len(a.list) > MaxAvatars THEN Len(a.list) - MaxAvatars ELSE 0

\* the value of !task.assignees || (task.assignees.length === 0 && <span>):
\* true for null, the span for an empty array, false otherwise
UnassignedChild(a) ==
    IF ~a.defined THEN "true"
    ELSE IF Len(a.list) = 0 THEN "span" ELSE "false"

\* React renders the booleans true and false as nothing
Renders(child) == child \notin {"true", "false"}

\* the cell of one row is rendered
RenderAssignees ==
    /\ rowPc = "props"
    /\ cell' = Cell(Avatars(assignees), More(assignees),
                    Renders(UnassignedChild(assignees)))
    /\ rowPc' = "rendered"
    /\ UNCHANGED assignees

RowOthers ==
    UNCHANGED <<compVars, pageVars, mimeVars, apiVars, sockVars, navVars, histVars>>

NextRow == RenderAssignees /\ RowOthers

InitRow ==
    RowInit /\ CompIdle /\ PageIdle /\ MimeIdle /\ ApiIdle /\ SocketIdle /\ NavIdle
    /\ HistIdle

SpecRow == InitRow /\ [][NextRow]_vars

\* C29: the "Unassigned" label is shown exactly when the task has no
\* assignees (assignees is null or an empty list); with assignees, at most
\* three avatars are shown, and a "+N" marker with N = count - 3 exactly
\* when count > 3.
C29_AssigneesCell ==
    rowPc = "rendered" =>
        LET count == IF assignees.defined THEN Len(assignees.list) ELSE 0
        IN /\ cell.unassigned <=> count = 0
           /\ Len(cell.avatars) = (IF count < 3 THEN count ELSE 3)
           /\ \A i \in 1..Len(cell.avatars) : cell.avatars[i] = assignees.list[i]
           /\ cell.more = (IF count > 3 THEN count - 3 ELSE 0)

(***************************************************************************)
(* Properties of TaskAttachments (specification Spec)                      *)
(***************************************************************************)
UploadSteps == <<"sign", "put", "record">>

\* C1: in every upload run the requests are issued in the order signed-URL
\* request, PUT, registration; the PUT only after the signed-URL request
\* succeeded, the registration only after the PUT answered OK; after a PUT
\* that answered non-OK or rejected the run issues no further request
\* (no registration, no cleanup).
C1_UploadOrder ==
    \A r \in 1..Len(uploads) :
        LET u == uploads[r] IN
        /\ Len(u.reqs) <= Len(UploadSteps)
        /\ u.reqs = SubSeq(UploadSteps, 1, Len(u.reqs))
        /\ Len(u.reqs) >= 2 => (Len(u.res) >= 1 /\ u.res[1] = "ok")
        /\ Len(u.reqs) >= 3 => (Len(u.res) >= 2 /\ u.res[2] = "ok")
        /\ (Len(u.res) >= 2 /\ u.res[2] # "ok") => u.reqs = <<"sign", "put">>

\* a run whose PUT answered non-OK has ended after its two requests
C1_Witness ==
    \E r \in 1..Len(uploads) :
        /\ uploads[r].pc = "failed"
        /\ uploads[r].res = <<"ok", "notok">>
        /\ uploads[r].reqs = <<"sign", "put">>

\* the id most recently passed to handleDeleteClick before position i
LastClicked(log, i) ==
    LET clicks == {j \in 1..(i - 1) : log[j].kind = "click"} IN
    IF clicks = {} THEN NoId
    ELSE log[CHOOSE j \in clicks : \A k \in clicks : k <= j].id

\* C2: every delete request targets the id most recently passed to
\* handleDeleteClick, which is still the pending id when the request is
\* issued, and directly follows a confirmation of that prompt; a click or a
\* Cancel is never what issues a request.
C2_DeleteTargetsPending ==
    /\ \A i \in 1..Len(deleteLog) :
          deleteLog[i].kind = "request" =>
            /\ i > 1
            /\ deleteLog[i - 1].kind = "confirm"
            /\ deleteLog[i - 1].id = deleteLog[i].id
            /\ deleteLog[i].id # NoId
            /\ LastClicked(deleteLog, i) = deleteLog[i].id
            /\ \A j \in 1..(i - 1) : deleteLog[j].kind # "cancel"
    /\ \A d \in 1..Len(deletes) :
          \E i \in 1..Len(deleteLog) : deleteLog[i] = Ev("request", deletes[d].id)

\* a2 was clicked and confirmed, and the request for it is in flight
C2_Witness ==
    /\ Len(deletes) = 1
    /\ deletes[1].id = "a2"
    /\ deleteLog = <<Ev("click", "a2"), Ev("confirm", "a2"), Ev("request", "a2")>>

\* C3: whenever the user confirms a pending deletion the delete call is
\* invoked, and once it has settled (success or failure) the pending id is
\* null and the prompt is closed.
C3_ConfirmInvokesDelete ==
    /\ \A i \in 1..Len(deleteLog) :
          (deleteLog[i].kind = "confirm" /\ deleteLog[i].id # NoId) =>
            (i < Len(deleteLog) /\ deleteLog[i + 1].kind = "request")
    /\ (deleteLog # <<>> /\ deleteLog[Len(deleteLog)].kind = "settled") =>
          (deletingAttachmentId = NoId /\ ~deleteAlertOpen)

\* C12: an upload run whose step 1 (signed-URL request) or step 3 (record
\* registration) failed has ended with exactly one error notification and
\* no success notification, has issued each of its requests once, and has
\* made no refetch of the attachment list.
C12_FailedRunEndsQuietly ==
    \A r \in 1..Len(uploads) :
        LET u == uploads[r] IN
        (u.pc = "failed" /\ Len(u.res) \in {1, 3}) =>
            /\ u.toasts = <<"error">>
            /\ u.reqs = SubSeq(UploadSteps, 1, Len(u.res))
            /\ u.refetches = 0

\* a run whose registration threw after the sign and the PUT succeeded
C12_Witness ==
    \E r \in 1..Len(uploads) :
        /\ uploads[r].pc = "failed"
        /\ uploads[r].res = <<"ok", "ok", "throw">>
        /\ uploads[r].toasts = <<"error">>

\* C27: the step in which an upload run ends clears the selected file and
\* issues a list refetch if and only if all three steps of the run have
\* succeeded; when the run ends in a failure the selected file stays as it
\* was, no list request is issued and the attachment list is not modified.
C27_UploadRunEffect ==
    [][ \A r \in 1..Len(uploads) :
          (r <= Len(uploads') /\ IsLive(uploads[r]) /\ ~IsLive(uploads'[r])) =>
              IF uploads'[r].res = <<"ok", "ok", "ok">>
              THEN /\ selectedFile' = NoFile
                   /\ Len(fetches') = Len(fetches) + 1
                   /\ uploads'[r].refetches = 1
              ELSE /\ selectedFile' = selectedFile /\ selectedFile' # NoFile
                   /\ fetches' = fetches
                   /\ uploads'[r].refetches = 0
                   /\ attachments' = attachments
      ]_vars

\* a run has ended after three successful steps: the selection is cleared
\* and the refetch it issued is in flight
C27_Witness ==
    /\ \E r \in 1..Len(uploads) :
          uploads[r].pc = "done" /\ uploads[r].res = <<"ok", "ok", "ok">>
    /\ lastCall.op = "record" /\ lastCall.outcome = "ok"
    /\ selectedFile = NoFile
    /\ fetches # <<>>

\* C14: with uploads submitted only through the enabled upload control, at
\* most one upload run is in flight, and isUploading is true exactly while
\* a run is in flight (false again once the run has ended, on success or
\* on failure).
C14_OneUploadRun ==
    /\ Cardinality(Live(uploads)) <= 1
    /\ isUploading <=> Live(uploads) # {}

\* a run has failed, isUploading is false again, and the control can submit
C14_Witness ==
    /\ \E r \in 1..Len(uploads) : uploads[r].pc = "failed"
    /\ Live(uploads) = {}
    /\ ~isUploading /\ selectedFile # NoFile

\* C13: the step in which a delete call settles leaves the attachment list
\* as it is; when the call succeeded the step issues one list request (a
\* refetch), when it failed it issues none. The list changes only in a step
\* in which a list request settles successfully.
C13_DeleteRefetches ==
    [][ /\ Len(deletes') < Len(deletes) =>
             /\ attachments' = attachments
             /\ lastCall'.op = "delete"
             /\ lastCall'.outcome = "ok" =>
                   /\ Len(fetches') = Len(fetches) + 1
                   /\ lastCall'.issued = <<"list">>
             /\ lastCall'.outcome # "ok" =>
                   /\ fetches' = fetches
                   /\ lastCall'.issued = <<>>
        /\ attachments' # attachments =>
             /\ Len(fetches') = Len(fetches) - 1
             /\ lastCall'.op = "list" /\ lastCall'.outcome = "ok"
      ]_vars

\* a delete call has succeeded, its refetch is in flight and the deleted
\* row is still in the list
C13_Witness ==
    /\ lastCall.op = "delete" /\ lastCall.outcome = "ok"
    /\ Len(fetches) >= 1
    /\ deleteLog # <<>>
    /\ deleteLog[Len(deleteLog)].kind = "settled"
    /\ deleteLog[Len(deleteLog)].id \in Shown(attachments)

\* C17: a failure of an API call made by TaskAttachments (the list request,
\* an upload step, the delete call, the signed download URL request) is
\* caught by the handler that awaited it (fetchAttachments,
\* handleFileUpload, confirmDelete or handleDownload), which shows an error
\* toast and issues no further request (no retry).
C17_FailuresCaught ==
    (lastCall.op # "none" /\ lastCall.outcome # "ok") =>
        /\ lastCall.handler \in {"fetchAttachments", "handleFileUpload",
                                 "confirmDelete", "handleDownload"}
        /\ lastCall.toast = "error"
        /\ lastCall.issued = <<>>

\* the signed download URL request has failed while a delete call is in
\* flight
C17_Witness ==
    /\ lastCall.op = "download" /\ lastCall.outcome = "throw"
    /\ lastCall.toast = "error"
    /\ Len(deletes) = 1

\* C20: after a successful list fetch the attachment list equals the
\* fetched records in response order, each with created_at set to its own
\* created_at when present and otherwise to its uploaded_at, and holds
\* nothing else (the previous list is replaced, not merged).
C20_ListReplaced ==
    (lastCall.op = "list" /\ lastCall.outcome = "ok") =>
        LET data == lastCall.data IN
        /\ Len(attachments) = Len(data)
        /\ \A i \in 1..Len(data) :
              /\ attachments[i].attachment_id = data[i].attachment_id
              /\ attachments[i].file_type = data[i].file_type
              /\ attachments[i].uploaded_at = data[i].uploaded_at
              /\ attachments[i].created_at =
                    IF data[i].created_at # "" THEN data[i].created_at
                    ELSE data[i].uploaded_at

\* the list [a2 without created_at, a1] has been fetched and a2 shows its
\* uploaded_at
C20_Witness ==
    /\ lastCall.op = "list" /\ lastCall.outcome = "ok"
    /\ Len(attachments) = 2
    /\ attachments[1].attachment_id = "a2"
    /\ attachments[1].created_at = "u2"
    /\ attachments[2].attachment_id = "a1"

\* C22: whenever the delete confirmation prompt is closed and no delete
\* request is in flight, the pending attachment id is null (the per-row
\* delete controls are enabled), however the prompt was closed: Cancel,
\* Continue or dismissal through onOpenChange.
C22_ClosedPromptNoPending ==
    (~deleteAlertOpen /\ deletes = <<>>) => deletingAttachmentId = NoId

\* C23: when list fetches overlap, a response of an earlier fetch that
\* arrives after a later fetch has succeeded does not overwrite the list:
\* once every fetch has settled, the list shown is the (formatted) response
\* of the most recently issued fetch that succeeded.
C23_LatestFetchWins ==
    (fetches = <<>> /\ lastCall.op = "list" /\ lastCall.outcome = "ok") =>
        attachments = FormatData(latestOk.data)

\* C24: after TaskAttachments has mounted, isLoading eventually becomes
\* false when every response arrives: the component does not stay in the
\* loading state forever.
C24_LoadingEnds == mounted ~> ~isLoading

(***************************************************************************)
(* Properties of the preview modal (specification SpecPreview)             *)
(***************************************************************************)
\* C16: whenever the preview is open for an attachment, the preview surface
\* is pointed at a signed download URL that the client requested from the
\* backend for that attachment (a list row click that opens the preview
\* issues the signed-URL request).
C16_PreviewUsesSignedUrl ==
    isPreviewModalOpen =>
        /\ PreviewUrlProp.kind = "signed"
        /\ PreviewUrlProp = SignedUrl(previewAttachment.attachment_id)

\* preview eligibility by prefix match against image/, video/ and
\* application/pdf
EligibleType(ft) ==
    /\ ft # NullType
    /\ \/ StartsWith(ft, ImagePrefix)
       \/ StartsWith(ft, VideoPrefix)
       \/ StartsWith(ft, PdfType)

\* C21: a call of handlePreviewClick with an attachment whose type is not
\* preview-eligible shows the info notice and leaves isPreviewModalOpen and
\* previewAttachment as they were; a call with an eligible attachment sets
\* previewAttachment to that attachment and opens the modal.
C21_PreviewClickEffect ==
    [][ previewClick' # previewClick =>
          IF EligibleType(previewClick'.att.file_type)
          THEN /\ previewAttachment' = previewClick'.att
               /\ isPreviewModalOpen'
               /\ previewClick'.toast = "none"
          ELSE /\ previewClick'.toast = "info"
               /\ isPreviewModalOpen' = isPreviewModalOpen
               /\ previewAttachment' = previewAttachment
      ]_vars

\* the handler was called with the text attachment a2 after the image a1
\* had been previewed and the modal closed: the notice, and nothing else
C21_Witness ==
    /\ previewClick.att.attachment_id = "a2"
    /\ previewClick.toast = "info"
    /\ ~isPreviewModalOpen
    /\ previewAttachment.attachment_id = "a1"

====
